---- MODULE Spec2Model ----
(***************************************************************************)
(* Model of src/machine_learning/featurize.py: PoleFeaturizer and          *)
(* ContourFeatures.  A caller (thread) runs one batch call,                *)
(* featurize_for_training or featurize_for_classification, statement by    *)
(* statement.  The OpenCV routines are external: a contour is represented  *)
(* by what they return for it.                                             *)
(*                                                                         *)
(* Numbers are pairs <<n, d>>: the fraction n/d in lowest terms, or the    *)
(* float not-a-number <<0, 0>>.  None, an unset local and a failed fit are *)
(* the empty tuple.                                                        *)
(***************************************************************************)
EXTENDS Integers, Sequences, FiniteSets, TLC

\* Longest batch handed to a batch call.
MaxBatch == 2

Threads == {1, 2}
Featurizers == {1, 2}

---------------------------------------------------------------------------
(* Numbers *)

RECURSIVE Gcd(_, _)
Gcd(a, b) == IF b = 0 THEN a ELSE Gcd(b, a % b)

NaN == <<0, 0>>

R(n, d) == LET g == Gcd(n, d) IN IF g = 0 THEN NaN ELSE <<n \div g, d \div g>>

IsZero(x) == x[1] = 0 /\ x[2] # 0

IsFinite(x) == x[2] # 0

\* Python's scalar "/" raises ZeroDivisionError on a zero divisor, int or float.
PyDivRaises(a, b) == IsZero(b)

PyDiv(a, b) == IF a = NaN \/ b = NaN THEN NaN ELSE R(a[1] * b[2], a[2] * b[1])

\* float(x) of a Python int
PyFloat(k) == R(k, 1)

\* np.abs(np.sin(angle * np.pi / 180)) on the angles of the model, in degrees
AbsSin(angle) ==
    IF angle = NaN THEN NaN
    ELSE IF angle = R(0, 1) THEN R(0, 1)
    ELSE IF angle = R(90, 1) THEN R(1, 1)
    ELSE IF angle = R(30, 1) THEN R(1, 2)
    ELSE NaN

---------------------------------------------------------------------------
(* Contours, as seen through cv.fitEllipse, cv.contourArea, cv.boundingRect *)
(* and cv.HuMoments(cv.moments(.))                                          *)

Hu(k) == [j \in 1..7 |-> R(k * 10 + j, 1000)]

HuZero == [j \in 1..7 |-> R(0, 1)]

\* no point at all: empty bounding rectangle
H_empty == [n |-> 0, fit |-> <<>>, area |-> R(0, 1), w |-> 0, h |-> 0, hu |-> HuZero]

\* the two points (0,0), (2,0)
H_two == [n |-> 2, fit |-> <<>>, area |-> R(0, 1), w |-> 3, h |-> 1, hu |-> HuZero]

\* the square (0,0), (2,0), (2,2), (0,2): too few points for an ellipse fit
H_square == [n |-> 4, fit |-> <<>>, area |-> R(4, 1), w |-> 3, h |-> 3, hu |-> Hu(1)]

\* a tall thin hull
H_pole == [n |-> 6, fit |-> <<R(2, 1), R(8, 1), R(30, 1)>>, area |-> R(12, 1),
           w |-> 3, h |-> 9, hu |-> Hu(2)]

\* a wide hull
H_blob == [n |-> 5, fit |-> <<R(6, 1), R(4, 1), R(90, 1)>>, area |-> R(20, 1),
           w |-> 6, h |-> 5, hu |-> Hu(3)]

\* a hull whose fitted ellipse has a zero axis
H_flat == [n |-> 5, fit |-> <<R(3, 1), R(0, 1), R(0, 1)>>, area |-> R(2, 1),
           w |-> 5, h |-> 2, hu |-> Hu(4)]

\* a hull for which the fit returns not-a-number axes
H_nan == [n |-> 5, fit |-> <<NaN, NaN, NaN>>, area |-> R(2, 1),
          w |-> 4, h |-> 2, hu |-> Hu(5)]

Hulls == {H_empty, H_two, H_square, H_pole, H_blob, H_flat, H_nan}

ConcHulls == {H_two, H_square, H_pole}

Labels == {0, 1}

Ops == {"train", "classify"}

SeqsUpTo(S, k) == UNION {[1..m -> S] : m \in 0..k}

---------------------------------------------------------------------------
(* ContourFeatures *)

ContourFeatures == [class |-> "ContourFeatures"]

\* cv.fitEllipse raises
FitRaises(hull) == hull.fit = <<>>

EllipseStale(prev) == IF prev = <<>> THEN <<R(1, 1), R(1, 1), R(0, 1)>> ELSE prev

\* angle = 0; MA = 1; ma = 1, whatever an earlier call left
EllipseDefaults(prev) == <<R(1, 1), R(1, 1), R(0, 1)>>

EllipseMixed(init, hull) ==
    IF FitRaises(hull) THEN init ELSE <<hull.fit[1], hull.fit[2], init[3]>>

\* try: (x,y),(MA,ma),angle = cv.fitEllipse(cnt)  except: pass
ellispe_features(init, hull) == IF FitRaises(hull) THEN init ELSE hull.fit

\* float(w)/h
AreaRaises(hull) == PyDivRaises(PyFloat(hull.w), PyFloat(hull.h))

area_features(hull) ==
    <<hull.area, PyFloat(hull.w * hull.h), PyDiv(PyFloat(hull.w), PyFloat(hull.h))>>

hu_moments_features(hull) == hull.hu

---------------------------------------------------------------------------
(* PoleFeaturizer.form_feature_vector *)

\* float(MA)/ma or rect_area/hull_area raises
DeriveRaises(e, a) == PyDivRaises(e[1], e[2]) \/ PyDivRaises(a[2], a[1])

AssembleSwapped(axis_ratio, aspect_ratio, extent, angle, hu_moments) ==
    <<axis_ratio, extent, aspect_ratio, angle>> \o hu_moments

AssembleNested(axis_ratio, aspect_ratio, extent, angle, hu_moments) ==
    <<axis_ratio, aspect_ratio, extent, angle, hu_moments>>

\* features.append(...) four times, then features += hu_moments
AssembleFeatures(axis_ratio, aspect_ratio, extent, angle, hu_moments) ==
    <<axis_ratio, aspect_ratio, extent, angle>> \o hu_moments

DeriveFeatures(e, a, m) ==
    AssembleFeatures(PyDiv(e[1], e[2]), a[3], PyDiv(a[2], a[1]), AbsSin(e[3]), m)

---------------------------------------------------------------------------
(* numpy *)

\* np.asarray(X).astype(float) of a list of equal-length float vectors
AsFloatMatrix(rows) ==
    [shape |-> IF rows = <<>> THEN <<0>> ELSE <<Len(rows), Len(rows[1])>>,
     data  |-> rows]

\* np.asarray(y).astype(float) of a list of labels
AsFloatVector(ls) ==
    [shape |-> <<Len(ls)>>, data |-> [k \in 1..Len(ls) |-> PyFloat(ls[k])]]

---------------------------------------------------------------------------
(* State *)

VARIABLES
    cnt_features,   \* PoleFeaturizer.cnt_features, per featurizer instance
    self,           \* the featurizer a caller calls
    op,             \* the batch call of the caller, or "none"
    hulls,          \* the contours of its argument, in order
    labels,         \* the labels of its argument (training only)
    pc,             \* where the caller stands
    i,              \* number of the contour the loop has taken
    ell,            \* locals MA, ma, angle
    area,           \* locals hull_area, rect_area, aspect_ratio
    hu,             \* local hu_moments
    fv,             \* value form_feature_vector returned
    X,              \* local X / X_hat
    y,              \* local y
    ret             \* value the batch call returned

vars == <<cnt_features, self, op, hulls, labels, pc, i, ell, area, hu, fv, X, y, ret>>

input == <<cnt_features, self, op, hulls, labels>>

AccShared(t) == self[t]

\* X, y and X_hat are locals of the call: one accumulator per caller
Acc(t) == t

RaisePcSwallow == "for"

\* nothing in the batch loops catches: an exception leaves the call
RaisePc == "raised"

RowsPrepend(o, rows, row) == IF o = "classify" THEN <<row>> \o rows ELSE Append(rows, row)

\* X.append(...) / X_hat.append(...)
RowsAfter(o, rows, row) == Append(rows, row)

LabelsPrepend(ls, label) == <<label>> \o ls

\* y.append(label)
LabelsAfter(ls, label) == Append(ls, label)

CurHull(t) == hulls[t][i[t]]

Blank == [t \in Threads |-> <<>>]

\* PoleFeaturizer.__init__
NewFeaturizers == [f \in Featurizers |-> ContourFeatures]

Locals0 ==
    /\ i = [t \in Threads |-> 0]
    /\ ell = Blank /\ area = Blank /\ hu = Blank /\ fv = Blank
    /\ X = Blank /\ y = Blank /\ ret = Blank

\* one caller, any featurizer, any batch over Hulls
Init ==
    /\ cnt_features = NewFeaturizers
    /\ \E f \in Featurizers : self = [t \in Threads |-> IF t = 1 THEN f ELSE 1]
    /\ \E o \in Ops : op = [t \in Threads |-> IF t = 1 THEN o ELSE "none"]
    /\ \E hs \in SeqsUpTo(Hulls, MaxBatch) :
         /\ hulls = [t \in Threads |-> IF t = 1 THEN hs ELSE <<>>]
         /\ \E ls \in [1..Len(hs) -> Labels] :
              labels = [t \in Threads |-> IF t = 1 /\ op[1] = "train" THEN ls ELSE <<>>]
    /\ pc = [t \in Threads |-> IF t = 1 THEN "entry" ELSE "idle"]
    /\ Locals0

\* a pole is labelled 1, anything else 0
PoleLabel(hull) == IF hull = H_pole THEN 1 ELSE 0

\* two concurrent callers of one featurizer, or of two
InitConc ==
    /\ cnt_features = NewFeaturizers
    /\ \E f \in Featurizers : self = [t \in Threads |-> IF t = 1 THEN 1 ELSE f]
    /\ op \in [Threads -> Ops]
    /\ hulls \in [Threads -> SeqsUpTo(ConcHulls, MaxBatch)]
    /\ labels = [t \in Threads |->
                   IF op[t] = "train"
                   THEN [k \in 1..Len(hulls[t]) |-> PoleLabel(hulls[t][k])]
                   ELSE <<>>]
    /\ pc = [t \in Threads |-> "entry"]
    /\ Locals0

---------------------------------------------------------------------------
(* Steps of a batch call *)

\* X = [] ; y = []   /   X_hat = []
Enter(t) ==
    /\ pc[t] = "entry"
    /\ X' = [X EXCEPT ![Acc(t)] = <<>>]
    /\ y' = IF op[t] = "train" THEN [y EXCEPT ![Acc(t)] = <<>>] ELSE y
    /\ pc' = [pc EXCEPT ![t] = "for"]
    /\ UNCHANGED <<input, i, ell, area, hu, fv, ret>>

\* for d in data: hull, label = d   /   for hull in hulls:
ForNext(t) ==
    /\ pc[t] = "for"
    /\ i[t] < Len(hulls[t])
    /\ i' = [i EXCEPT ![t] = @ + 1]
    /\ pc' = [pc EXCEPT ![t] = "ellipse"]
    /\ UNCHANGED <<input, ell, area, hu, fv, X, y, ret>>

\* MA, ma, angle = self.cnt_features.ellispe_features(hull)
Ellipse(t) ==
    /\ pc[t] = "ellipse"
    /\ cnt_features[self[t]] = ContourFeatures
    /\ ell' = [ell EXCEPT ![t] = ellispe_features(EllipseDefaults(@), CurHull(t))]
    /\ pc' = [pc EXCEPT ![t] = "area"]
    /\ UNCHANGED <<input, i, area, hu, fv, X, y, ret>>

\* hull_area, rect_area, aspect_ratio = self.cnt_features.area_features(hull)
Area(t) ==
    /\ pc[t] = "area"
    /\ IF AreaRaises(CurHull(t))
       THEN /\ pc' = [pc EXCEPT ![t] = RaisePc]
            /\ UNCHANGED area
       ELSE /\ area' = [area EXCEPT ![t] = area_features(CurHull(t))]
            /\ pc' = [pc EXCEPT ![t] = "hu"]
    /\ UNCHANGED <<input, i, ell, hu, fv, X, y, ret>>

\* hu_moments = self.cnt_features.hu_moments_features(hull)
HuMoments(t) ==
    /\ pc[t] = "hu"
    /\ hu' = [hu EXCEPT ![t] = hu_moments_features(CurHull(t))]
    /\ pc' = [pc EXCEPT ![t] = "derive"]
    /\ UNCHANGED <<input, i, ell, area, fv, X, y, ret>>

\* the divisions, the angle, the assembly and the return of form_feature_vector
Derive(t) ==
    /\ pc[t] = "derive"
    /\ IF DeriveRaises(ell[t], area[t])
       THEN /\ pc' = [pc EXCEPT ![t] = RaisePc]
            /\ UNCHANGED fv
       ELSE /\ fv' = [fv EXCEPT ![t] = DeriveFeatures(ell[t], area[t], hu[t])]
            /\ pc' = [pc EXCEPT ![t] = "appendX"]
    /\ UNCHANGED <<input, i, ell, area, hu, X, y, ret>>

\* X.append(self.form_feature_vector(hull))
AppendX(t) ==
    /\ pc[t] = "appendX"
    /\ X' = [X EXCEPT ![Acc(t)] = RowsAfter(op[t], @, fv[t])]
    /\ pc' = [pc EXCEPT ![t] = IF op[t] = "train" THEN "appendY" ELSE "for"]
    /\ UNCHANGED <<input, i, ell, area, hu, fv, y, ret>>

\* y.append(label)
AppendY(t) ==
    /\ pc[t] = "appendY"
    /\ y' = [y EXCEPT ![Acc(t)] = LabelsAfter(@, labels[t][i[t]])]
    /\ pc' = [pc EXCEPT ![t] = "for"]
    /\ UNCHANGED <<input, i, ell, area, hu, fv, X, ret>>

\* return np.asarray(X).astype(float), np.asarray(y).astype(float)
\* return np.asarray(X_hat).astype(float)
Return(t) ==
    /\ pc[t] = "for"
    /\ i[t] >= Len(hulls[t])
    /\ ret' = [ret EXCEPT ![t] =
                 IF op[t] = "train"
                 THEN <<AsFloatMatrix(X[Acc(t)]), AsFloatVector(y[Acc(t)])>>
                 ELSE <<AsFloatMatrix(X[Acc(t)])>>]
    /\ pc' = [pc EXCEPT ![t] = "done"]
    /\ UNCHANGED <<input, i, ell, area, hu, fv, X, y>>

Next ==
    \E t \in Threads :
        \/ Enter(t)
        \/ ForNext(t)
        \/ Ellipse(t)
        \/ Area(t)
        \/ HuMoments(t)
        \/ Derive(t)
        \/ AppendX(t)
        \/ AppendY(t)
        \/ Return(t)

Spec == Init /\ [][Next]_vars

SpecConc == InitConc /\ [][Next]_vars

---------------------------------------------------------------------------
(* A call run alone, as a function of its argument *)

FallbackEllipse == <<R(1, 1), R(1, 1), R(0, 1)>>

\* form_feature_vector(hull) raises
form_feature_vector_raises(hull) ==
    \/ AreaRaises(hull)
    \/ DeriveRaises(ellispe_features(EllipseDefaults(<<>>), hull), area_features(hull))

\* the vector form_feature_vector(hull) returns when it does not raise
form_feature_vector(hull) ==
    DeriveFeatures(ellispe_features(EllipseDefaults(<<>>), hull),
                   area_features(hull), hu_moments_features(hull))

BatchRaises(hs) == \E k \in 1..Len(hs) : form_feature_vector_raises(hs[k])

SoloMatrix(hs) == AsFloatMatrix([k \in 1..Len(hs) |-> form_feature_vector(hs[k])])

SoloResult(o, hs, ls) ==
    IF o = "train" THEN <<SoloMatrix(hs), AsFloatVector(ls)>> ELSE <<SoloMatrix(hs)>>

Callers == {t \in Threads : op[t] # "none"}

\* the caller holds the locals of form_feature_vector for its current contour
PastEllipse(t) == i[t] >= 1 /\ pc[t] # "ellipse"

\* one of the three divisions has a zero divisor for this contour
ZeroDivisor(hull) ==
    \/ hull.h = 0
    \/ IsZero(hull.area)
    \/ (~FitRaises(hull) /\ IsZero(hull.fit[2]))

---------------------------------------------------------------------------
(* Claims *)

\* C1: a zero divisor in aspect_ratio, extent or axis_ratio does not raise:
\* the call goes on and the vector it returns has a non-finite entry.
C1_DivisionsPropagate ==
    \A t \in Callers :
        (i[t] >= 1 /\ ZeroDivisor(CurHull(t))) =>
            /\ pc[t] # "raised"
            /\ pc[t] = "appendX" => \E j \in 1..3 : ~IsFinite(fv[t][j])

\* C2: on a contour of fewer than 3 points form_feature_vector does not raise
\* and returns axisRatio = 1 and normalizedAngle = 0.
C2_SmallContourNoRaise ==
    \A t \in Callers :
        (i[t] >= 1 /\ CurHull(t).n < 3) =>
            /\ pc[t] # "raised"
            /\ pc[t] = "appendX" => (fv[t][1] = R(1, 1) /\ fv[t][4] = R(0, 1))

\* C3: ellispe_features never raises; it returns (1, 1, 0) when the fit fails
\* and the fitted (MA, ma, angle) when it succeeds, never a mix of the two.
C3_EllipseFallback ==
    \A t \in Callers :
        PastEllipse(t) =>
            /\ FitRaises(CurHull(t)) => ell[t] = <<R(1, 1), R(1, 1), R(0, 1)>>
            /\ ~FitRaises(CurHull(t)) => ell[t] = CurHull(t).fit

C3_Witness ==
    \E t \in Callers :
        /\ pc[t] = "area" /\ i[t] = 2
        /\ FitRaises(CurHull(t)) /\ ~FitRaises(hulls[t][1])
        /\ ell[t] = FallbackEllipse

\* C4: the matrix and the label vector featurize_for_training returns have one
\* entry per sample, in input order: y[k] is the float of the k-th label and
\* M[k] the feature vector of the k-th contour.
C4_RowAlignment ==
    \A t \in Callers :
        (pc[t] = "done" /\ op[t] = "train") =>
            LET M  == ret[t][1]
                yv == ret[t][2]
                n  == Len(hulls[t])
            IN  /\ Len(M.data) = n /\ Len(yv.data) = n
                /\ M.shape[1] = n /\ yv.shape = <<n>>
                /\ \A k \in 1..n :
                     /\ yv.data[k] = <<labels[t][k], 1>>
                     /\ M.data[k] = form_feature_vector(hulls[t][k])

C4_Witness ==
    \E t \in Callers :
        /\ pc[t] = "done" /\ op[t] = "train" /\ Len(hulls[t]) = 2
        /\ labels[t] = <<1, 0>>
        /\ hulls[t][1] # hulls[t][2]
        /\ ret[t][2].data = <<R(1, 1), R(0, 1)>>

\* C5: a vector form_feature_vector returns has 11 entries, in the order
\* MA/ma, the aspect ratio of area_features, rect_area/hull_area,
\* |sin(angle)|, then the 7 Hu moments in their order.
C5_VectorLayout ==
    \A t \in Callers :
        pc[t] = "appendX" =>
            LET h == CurHull(t)
                e == IF FitRaises(h) THEN FallbackEllipse ELSE h.fit
            IN  /\ Len(fv[t]) = 11
                /\ fv[t][1] = PyDiv(e[1], e[2])
                /\ fv[t][2] = PyDiv(<<h.w, 1>>, <<h.h, 1>>)
                /\ fv[t][3] = PyDiv(<<h.w * h.h, 1>>, h.area)
                /\ fv[t][4] = AbsSin(e[3])
                /\ \A j \in 1..7 : fv[t][4 + j] = h.hu[j]

C5_Witness ==
    \E t \in Callers :
        /\ pc[t] = "appendX" /\ CurHull(t) = H_pole
        /\ fv[t] = <<R(1, 4), R(1, 3), R(9, 4), R(1, 2)>> \o Hu(2)

\* C6, as claimed: every returned matrix, that of the empty batch included, is
\* 2-D with one row per contour and 11 columns.
C6_AlwaysTwoD ==
    \A t \in Callers :
        pc[t] = "done" =>
            /\ Len(ret[t][1].shape) = 2
            /\ ret[t][1].shape = <<Len(hulls[t]), 11>>
            /\ op[t] = "train" => ret[t][2].shape = <<Len(hulls[t])>>

\* C6, amended: the matrix returned for a non-empty batch is 2-D with one row
\* per contour and 11 columns; for the empty batch it is 1-D of length 0, as
\* is the label vector.
C6_Shape ==
    \A t \in Callers :
        pc[t] = "done" =>
            /\ hulls[t] # <<>> => ret[t][1].shape = <<Len(hulls[t]), 11>>
            /\ hulls[t] # <<>> => \A k \in 1..Len(hulls[t]) : Len(ret[t][1].data[k]) = 11
            /\ hulls[t] = <<>> => (ret[t][1].shape = <<0>> /\ ret[t][1].data = <<>>)
            /\ op[t] = "train" => ret[t][2].shape = <<Len(hulls[t])>>

C6_Witness ==
    /\ \E t \in Callers : pc[t] = "done" /\ hulls[t] = <<>> /\ op[t] = "train"
                          /\ ret[t][1].shape = <<0>> /\ ret[t][2].shape = <<0>>

\* C7: featurize_for_classification returns the feature vectors of its
\* contours in input order, and what it returns (or that it raises) is what
\* featurize_for_training returns as matrix (or does) on the same contours.
C7_ClassifyIsTrainMatrix ==
    \A t \in Callers :
        op[t] = "classify" =>
            /\ pc[t] = "done" =>
                 /\ Len(ret[t][1].data) = Len(hulls[t])
                 /\ \A k \in 1..Len(hulls[t]) : ret[t][1].data[k] = form_feature_vector(hulls[t][k])
            /\ \A u \in Callers :
                 (op[u] = "train" /\ hulls[u] = hulls[t]) =>
                     /\ (pc[t] = "done" /\ pc[u] = "done") => ret[u][1] = ret[t][1]
                     /\ ~(pc[t] = "done" /\ pc[u] = "raised")
                     /\ ~(pc[t] = "raised" /\ pc[u] = "done")

C7_Witness ==
    \E t, u \in Callers :
        /\ op[t] = "classify" /\ op[u] = "train"
        /\ pc[t] = "done" /\ pc[u] = "done"
        /\ hulls[t] = hulls[u] /\ Len(hulls[t]) = 2 /\ hulls[t][1] # hulls[t][2]
        /\ ret[t][1] = ret[u][1]

\* C8: two calls of form_feature_vector on one contour, by one caller or by
\* two, on one featurizer or on two, whatever was featurized in between,
\* return the same vector or both raise.
C8_Deterministic ==
    \A t, u \in Callers :
        /\ \A k \in 1..Len(X[t]) : \A m \in 1..Len(X[u]) :
             hulls[t][k] = hulls[u][m] => X[t][k] = X[u][m]
        /\ pc[t] = "raised" =>
             /\ \A m \in 1..Len(X[u]) : hulls[u][m] # CurHull(t)
             /\ (pc[u] = "appendX" => CurHull(u) # CurHull(t))

C8_Witness ==
    \E t, u \in Callers :
        /\ t # u /\ self[t] # self[u]
        /\ Len(X[t]) = 2 /\ Len(X[u]) = 1
        /\ FitRaises(hulls[t][2]) /\ ~FitRaises(hulls[t][1])
        /\ hulls[u][1] = hulls[t][2]
        /\ X[u][1] = X[t][2]

\* C9: under every interleaving of the batch calls of concurrent callers,
\* each call returns what it returns run alone, and raises exactly when it
\* raises run alone; cnt_features is never reassigned.
C9_ConcurrentAsAlone ==
    /\ cnt_features = [f \in Featurizers |-> [class |-> "ContourFeatures"]]
    /\ \A t \in Callers :
         /\ pc[t] = "done" =>
              (~BatchRaises(hulls[t]) /\ ret[t] = SoloResult(op[t], hulls[t], labels[t]))
         /\ pc[t] = "raised" => BatchRaises(hulls[t])

C9_Witness ==
    \E t, u \in Callers :
        /\ t # u /\ self[t] = self[u]
        /\ pc[t] = "done" /\ Len(hulls[t]) = 2
        /\ pc[u] = "appendX" /\ i[u] = 2

\* C10: a batch call whose k-th contour makes form_feature_vector raise
\* raises, returns nothing, and takes no contour after the k-th; a batch
\* call returns only if none of its contours raised.
C10_AllOrNothing ==
    \A t \in Callers :
        /\ pc[t] = "raised" =>
             /\ ret[t] = <<>>
             /\ form_feature_vector_raises(CurHull(t))
        /\ pc[t] = "done" => \A k \in 1..Len(hulls[t]) : ~form_feature_vector_raises(hulls[t][k])
        /\ ret[t] # <<>> => pc[t] = "done"
        /\ \A k \in 1..(i[t] - 1) : ~form_feature_vector_raises(hulls[t][k])

C10_Witness ==
    \E t \in Callers :
        /\ pc[t] = "raised" /\ i[t] = 2 /\ Len(hulls[t]) = 2
        /\ Len(X[t]) = 1 /\ ret[t] = <<>>

====
